---- MODULE Spec2Model ----
(***************************************************************************)
(* The multi-key ScraperAPI relay of Scrap-Backend: the credential pool,   *)
(* the usage ledger (currentKeyIndex, usageCounts, lastResetMonth), its    *)
(* persisted copy usage.json, the start-up code that loads and resets it,  *)
(* and the POST /scrape handler, which selects a key, awaits the upstream  *)
(* fetch and then increments and saves the ledger.                         *)
(*                                                                         *)
(* The repository holds four versions of this server.  `variant` says      *)
(* which one is deployed:                                                  *)
(*   "index_js"  src/index.js 342-478                                      *)
(*   "part_002"  src/unnamed/part_002                                      *)
(*   "part_000"  src/unnamed/part_000                                      *)
(*   "part_001"  src/unnamed/part_001 344-425                              *)
(* Credentials are identified by their index in `keys` (0-based, as in the *)
(* code); the key strings are taken to be non-empty and pairwise distinct. *)
(* JavaScript arrays are sequences: usageCounts[i] of the code is          *)
(* usageCounts[i + 1] here, and an index outside DOMAIN reads `undefined`. *)
(*                                                                         *)
(* The upstream outcome "ok" of the relay is a 2xx answer whose page the   *)
(* handler parses without throwing; what the handler extracts from a page, *)
(* and the pages it throws on, are modelled by Extracted.  The batch       *)
(* endpoint POST /scrape-multi of the single-key server (src/index.js      *)
(* 187-340) is modelled by MultiReceive, MultiSettle and MultiRespond.     *)
(***************************************************************************)
EXTENDS Integers, Sequences, FiniteSets, TLC

VARIABLES
    variant,          \* the server file that is deployed
    running,          \* the process is up (module code has run, app.listen)
    keys,             \* keys.length: the size of the credential pool
    currentKeyIndex,  \* the cursor
    usageCounts,      \* per-credential request counts of this month
    lastResetMonth,   \* month of the last reset
    file,             \* usage.json: NoFile or the saved document
    pc,               \* per request slot: "idle", "fetch" (awaiting fetch)
                      \* or "hung" (awaiting a fetch nobody will answer)
    keyToUse,         \* per request slot: index of the key sent upstream
    query,            \* per request slot: the kind of req.body.query
    res,              \* the response sent by the latest handler step
    writeFailures,    \* consecutive failed saves of a running process
    served,           \* 200 responses since the zero ledger (SpecSeq only)
    multi,            \* the POST /scrape-multi request of the single-key server
    page,             \* a fetched page and what the handler extracts from it
    single            \* the POST /scrape request of a single-key server

vars == <<variant, running, keys, currentKeyIndex, usageCounts, lastResetMonth,
          file, pc, keyToUse, query, res, writeFailures, served, multi, page,
          single>>

\* The state of the multi-key relay.
relay == <<variant, running, keys, currentKeyIndex, usageCounts, lastResetMonth,
           file, pc, keyToUse, query, res, writeFailures, served>>

ledger == <<currentKeyIndex, usageCounts, lastResetMonth>>

(***************************************************************************)
(* Bounds of the model.                                                    *)
(***************************************************************************)
MaxKeys == 2
MaxReq == 2
NumMonths == 2
MaxWriteFailures == 1
MaxBatch == 3

(***************************************************************************)
(* Program constants.                                                      *)
(***************************************************************************)
Cap == 1000

Variants == {"index_js", "part_002", "part_000", "part_001"}
Req == 1..MaxReq
Months == 0..(NumMonths - 1)

NoFile == [exists |-> FALSE]
NoKey == -1
NoBatch == [phase |-> "none"]
NoPage == [phase |-> "none"]
NoCall == [phase |-> "none"]

WrapScan(v) == v \in {"index_js", "part_002"}
RegexValidation(v) == v \in {"index_js", "part_002"}
ChecksResponseOk(v) == v \in {"index_js", "part_002", "part_000"}
ParsesQueryUrl(v) == v \in {"index_js", "part_000"}
GuardedWrite(v) == v \in {"index_js", "part_002"}
HasTimeout(v) == v \in {"index_js", "part_002"}

(***************************************************************************)
(* Inputs.  A query is one of                                              *)
(*   "missing"     undefined, null or ""                                   *)
(*   "nonstring"   a truthy JSON value that is no string, e.g. 123         *)
(*   "nomatch"     a string that fails both URL regexes, "example.com"     *)
(*   "unparsable"  matches both regexes, new URL() throws: "http://[x"     *)
(*   "valid"       "https://example.com"                                   *)
(* The upstream fetch ends in one of                                       *)
(*   "ok" (2xx), "s429", "s401", "s403", "s500" (any other non-2xx),       *)
(*   "s500rate", "s500key" (any other non-2xx whose body contains the text *)
(*   'Rate limit', 'Invalid API key'),                                     *)
(*   "neterr" (the promise rejects), "hang" (no answer ever).              *)
(***************************************************************************)
Queries == {"missing", "nonstring", "nomatch", "unparsable", "valid"}
Upstream ==
    {"ok", "s429", "s401", "s403", "s500", "s500rate", "s500key", "neterr",
     "hang"}

Zeros(n) == [i \in 1..n |-> 0]

Min(a, b) == IF a < b THEN a ELSE b

\* Array.prototype.slice(0, n)
Slice(s, n) == SubSeq(s, 1, Min(n, Len(s)))

Doc(cki, uc, lrm) ==
    [exists |-> TRUE, currentKeyIndex |-> cki, usageCounts |-> uc,
     lastResetMonth |-> lrm]

NoResponse == [status |-> 0, error |-> "none"]
Response(s, e) == [status |-> s, error |-> e]
QuotaExhausted == Response(429, "All API keys are used up for this month")

(***************************************************************************)
(* Key selection: app.post('/scrape'), "Find a key with available          *)
(* requests".  usageCounts[index] < 1000 is false for a missing entry      *)
(* (undefined < 1000).                                                     *)
(***************************************************************************)
\* A faulty Usable: the budget test written <= instead of <.
UsableOffByOne(uc, i) == (i + 1) \in DOMAIN uc /\ uc[i + 1] <= Cap

Usable(uc, i) == (i + 1) \in DOMAIN uc /\ uc[i + 1] < Cap

\* The indices the loop visits, in order.
ScanOrder(v, n, cursor) ==
    IF WrapScan(v)
    THEN [i \in 1..n |-> (cursor + (i - 1)) % n]
    ELSE [i \in 1..(IF n > cursor THEN n - cursor ELSE 0) |-> cursor + (i - 1)]

\* A faulty SelectIndex: keyToUse starts as keys[currentKeyIndex], not null.
SelectIndexDefault(v, n, uc, cursor) ==
    LET order == ScanOrder(v, n, cursor)
        hits == {i \in DOMAIN order : Usable(uc, order[i])}
    IN  IF hits = {} THEN (IF n > 0 THEN cursor % n ELSE NoKey)
        ELSE order[CHOOSE i \in hits : \A j \in hits : i <= j]

\* A faulty SelectIndex: the loop has no break, the last hit wins.
SelectIndexNoBreak(v, n, uc, cursor) ==
    LET order == ScanOrder(v, n, cursor)
        hits == {i \in DOMAIN order : Usable(uc, order[i])}
    IN  IF hits = {} THEN NoKey
        ELSE order[CHOOSE i \in hits : \A j \in hits : i >= j]

\* The index the loop breaks at, NoKey when it runs to its end.
SelectIndex(v, n, uc, cursor) ==
    LET order == ScanOrder(v, n, cursor)
        hits == {i \in DOMAIN order : Usable(uc, order[i])}
    IN  IF hits = {} THEN NoKey
        ELSE order[CHOOSE i \in hits : \A j \in hits : i <= j]

(***************************************************************************)
(* Validation of req.body.query.  With the regex check a truthy non-string *)
(* has no .match method: the async handler throws before any response.    *)
(***************************************************************************)
Validation(v, q) ==
    IF q = "missing" THEN "reject"
    ELSE IF RegexValidation(v)
         THEN (IF q = "nonstring" THEN "throw"
               ELSE IF q = "nomatch" THEN "reject"
               ELSE "pass")
         ELSE "pass"

InvalidInput(v) ==
    IF RegexValidation(v)
    THEN Response(400, "Please provide a valid URL")
    ELSE Response(400, "Please provide a URL to scrape")

\* new URL(query) throws a TypeError for these.
UrlThrows(q) == q \in {"nonstring", "nomatch", "unparsable"}

(***************************************************************************)
(* What the try block throws, "none" when it runs to res.json.             *)
(***************************************************************************)
FetchRejects(v, u) == u = "neterr" \/ (u = "hang" /\ HasTimeout(v))

Thrown(v, u, q) ==
    IF FetchRejects(v, u) THEN "network"
    ELSE IF ChecksResponseOk(v) /\ u # "ok"
         THEN (IF v = "part_000" THEN "ScraperAPI error"
               ELSE IF u = "s429" THEN "Rate limit exceeded"
               ELSE IF u \in {"s401", "s403"} THEN "Invalid API key"
               ELSE IF u = "s500rate" THEN "ScraperAPI error: Rate limit"
               ELSE IF u = "s500key" THEN "ScraperAPI error: Invalid API key"
               ELSE "ScraperAPI error")
    ELSE IF ParsesQueryUrl(v) /\ UrlThrows(q) THEN "Invalid URL"
    ELSE "none"

\* error.message.includes('Rate limit'), .includes('Invalid API key')
MentionsRateLimit(msg) ==
    msg \in {"Rate limit exceeded", "ScraperAPI error: Rate limit"}
MentionsInvalidKey(msg) ==
    msg \in {"Invalid API key", "ScraperAPI error: Invalid API key"}

\* The catch block: error.message to the response.
Caught(v, msg) ==
    IF v = "part_001" THEN Response(500, "Something went wrong while scraping")
    ELSE IF v = "part_000" THEN Response(500, msg)
    ELSE IF MentionsRateLimit(msg) THEN Response(429, msg)
    ELSE IF MentionsInvalidKey(msg) THEN Response(401, msg)
    ELSE Response(500, msg)

\* usageCounts[currentKeyIndex]++ (the entry exists whenever a request is in
\* flight: a selection has set the cursor to an index that had a count)
Increment(uc, cursor) == [uc EXCEPT ![cursor + 1] = @ + 1]

Down ==
    /\ running' = FALSE
    /\ keys' = 0
    /\ currentKeyIndex' = 0
    /\ usageCounts' = <<>>
    /\ lastResetMonth' = 0
    /\ pc' = [r \in Req |-> "idle"]
    /\ keyToUse' = [r \in Req |-> NoKey]
    /\ query' = [r \in Req |-> "missing"]

(***************************************************************************)
(* Process start: the module's top-level code.  n is the number of        *)
(* API_KEY_* entries of the environment, m is new Date().getMonth(), wok   *)
(* says whether a write of usage.json succeeds.  A (re)start ends every    *)
(* request in flight.                                                      *)
(***************************************************************************)
\* A faulty Loaded: the saved counts are not restored.
LoadedWithoutCounts(f, n, m) ==
    IF f.exists
    THEN [currentKeyIndex |-> f.currentKeyIndex,
          usageCounts |-> Zeros(n),
          lastResetMonth |-> f.lastResetMonth]
    ELSE [currentKeyIndex |-> 0, usageCounts |-> Zeros(n), lastResetMonth |-> m]

Loaded(f, n, m) ==
    IF f.exists
    THEN [currentKeyIndex |-> f.currentKeyIndex,
          usageCounts |-> Slice(f.usageCounts, n),
          lastResetMonth |-> f.lastResetMonth]
    ELSE [currentKeyIndex |-> 0, usageCounts |-> Zeros(n), lastResetMonth |-> m]

\* A faulty MonthlyReset: the reset also rewinds the cursor.
MonthlyResetRewinds(l, n, m) ==
    [currentKeyIndex |-> 0, usageCounts |-> Zeros(n), lastResetMonth |-> m]

\* "Reset usage counts monthly": the body of if (currentMonth !== lastResetMonth)
MonthlyReset(l, n, m) ==
    [currentKeyIndex |-> l.currentKeyIndex,
     usageCounts |-> Zeros(n),
     lastResetMonth |-> m]

Startup(n, m, wok) ==
    LET l == Loaded(file, n, m)
        reset == m # l.lastResetMonth
        now == IF reset THEN MonthlyReset(l, n, m) ELSE l
    IN  /\ wok \/ reset
        /\ res' = NoResponse
        /\ writeFailures' = 0
        /\ IF reset /\ ~wok /\ ~GuardedWrite(variant)
           THEN \* writeFileSync throws at top level: the process exits
                Down /\ UNCHANGED <<variant, file>>
           ELSE /\ running' = TRUE
                /\ keys' = n
                /\ currentKeyIndex' = now.currentKeyIndex
                /\ usageCounts' = now.usageCounts
                /\ lastResetMonth' = now.lastResetMonth
                /\ file' = IF reset /\ wok
                           THEN Doc(now.currentKeyIndex, now.usageCounts,
                                    now.lastResetMonth)
                           ELSE file
                /\ pc' = [r \in Req |-> "idle"]
                /\ keyToUse' = [r \in Req |-> NoKey]
                /\ query' = [r \in Req |-> "missing"]
                /\ UNCHANGED variant

(***************************************************************************)
(* POST /scrape up to the await of the fetch: validation, key selection,   *)
(* the fetch is issued.  crash: an unhandled rejection ends the process    *)
(* (Node >= 15) or is only reported (older Node).                          *)
(***************************************************************************)
Scrape(r, q, crash) ==
    /\ running
    /\ pc[r] = "idle"
    /\ LET check == Validation(variant, q)
           index == SelectIndex(variant, keys, usageCounts, currentKeyIndex)
       IN  CASE check = "reject" ->
                  /\ ~crash
                  /\ res' = InvalidInput(variant)
                  /\ UNCHANGED <<variant, running, keys, ledger, file, pc,
                                 keyToUse, query, writeFailures>>
             [] check = "throw" ->
                  /\ res' = NoResponse
                  /\ IF crash
                     THEN Down /\ writeFailures' = 0 /\ UNCHANGED <<variant, file>>
                     ELSE UNCHANGED <<variant, running, keys, ledger, file, pc,
                                      keyToUse, query, writeFailures>>
             [] check = "pass" /\ index = NoKey ->
                  /\ ~crash
                  /\ res' = QuotaExhausted
                  /\ UNCHANGED <<variant, running, keys, ledger, file, pc,
                                 keyToUse, query, writeFailures>>
             [] check = "pass" /\ index # NoKey ->
                  /\ ~crash
                  /\ currentKeyIndex' = index
                  /\ keyToUse' = [keyToUse EXCEPT ![r] = index]
                  /\ query' = [query EXCEPT ![r] = q]
                  /\ pc' = [pc EXCEPT ![r] = "fetch"]
                  /\ res' = NoResponse
                  /\ UNCHANGED <<variant, running, keys, usageCounts,
                                 lastResetMonth, file, writeFailures>>

(***************************************************************************)
(* POST /scrape from the await on: the fetch settles with outcome u, the   *)
(* page is parsed, the count of currentKeyIndex is incremented, the ledger *)
(* is saved and the response is sent; or the catch block answers.          *)
(* Without a timeout a fetch that hangs never settles.                     *)
(***************************************************************************)
\* A faulty Resume: after a failed fetch the handler tries the next
\* credential when it has budget left.
ResumeRetries(r, u, wok) ==
    /\ running
    /\ pc[r] \in {"fetch", "hung"}
    /\ pc[r] = "hung" => u = "hang"
    /\ u = "hang" => HasTimeout(variant)
    /\ LET msg == Thrown(variant, u, query[r])
           uc == Increment(usageCounts, currentKeyIndex)
           next == (currentKeyIndex + 1) % keys
           retry == /\ msg # "none"
                    /\ next # currentKeyIndex
                    /\ Usable(usageCounts, next)
       IN  /\ wok \/ (msg = "none" /\ writeFailures < MaxWriteFailures)
           /\ IF retry
              THEN /\ currentKeyIndex' = next
                   /\ keyToUse' = [keyToUse EXCEPT ![r] = next]
                   /\ pc' = [pc EXCEPT ![r] = "fetch"]
                   /\ res' = NoResponse
                   /\ UNCHANGED <<usageCounts, file, writeFailures, query>>
              ELSE /\ IF msg # "none"
                      THEN /\ res' = Caught(variant, msg)
                           /\ UNCHANGED <<usageCounts, file, writeFailures>>
                      ELSE /\ usageCounts' = uc
                           /\ file' = IF wok
                                      THEN Doc(currentKeyIndex, uc,
                                               lastResetMonth)
                                      ELSE file
                           /\ writeFailures' =
                                 IF wok THEN 0 ELSE writeFailures + 1
                           /\ res' = IF wok \/ GuardedWrite(variant)
                                     THEN Response(200, "")
                                     ELSE Caught(variant, "write failed")
                   /\ pc' = [pc EXCEPT ![r] = "idle"]
                   /\ keyToUse' = [keyToUse EXCEPT ![r] = NoKey]
                   /\ query' = [query EXCEPT ![r] = "missing"]
                   /\ UNCHANGED currentKeyIndex
    /\ UNCHANGED <<variant, running, keys, lastResetMonth>>

Resume(r, u, wok) ==
    /\ running
    /\ pc[r] \in {"fetch", "hung"}
    /\ pc[r] = "hung" => u = "hang"
    /\ u = "hang" => HasTimeout(variant)
    /\ LET msg == Thrown(variant, u, query[r])
           uc == Increment(usageCounts, currentKeyIndex)
       IN  /\ wok \/ (msg = "none" /\ writeFailures < MaxWriteFailures)
           /\ IF msg # "none"
              THEN /\ res' = Caught(variant, msg)
                   /\ UNCHANGED <<usageCounts, file, writeFailures>>
              ELSE /\ usageCounts' = uc
                   /\ file' = IF wok
                              THEN Doc(currentKeyIndex, uc, lastResetMonth)
                              ELSE file
                   /\ writeFailures' = IF wok THEN 0 ELSE writeFailures + 1
                   /\ res' = IF wok \/ GuardedWrite(variant)
                             THEN Response(200, "")
                             ELSE Caught(variant, "write failed")
    /\ pc' = [pc EXCEPT ![r] = "idle"]
    /\ keyToUse' = [keyToUse EXCEPT ![r] = NoKey]
    /\ query' = [query EXCEPT ![r] = "missing"]
    /\ UNCHANGED <<variant, running, keys, currentKeyIndex, lastResetMonth>>

\* The upstream service stops answering the fetch of request r.
Hang(r) ==
    /\ running
    /\ pc[r] = "fetch"
    /\ pc' = [pc EXCEPT ![r] = "hung"]
    /\ UNCHANGED <<variant, running, keys, ledger, file, keyToUse, query, res,
                   writeFailures>>

(***************************************************************************)
(* Specification SpecSeq: a process of any of the server files that        *)
(* started with no usage.json (the zero ledger) and is never restarted;    *)
(* requests are handled one at a time, with every kind of query and every  *)
(* upstream outcome; served counts the 200 responses.  The pool may be     *)
(* empty.                                                                  *)
(***************************************************************************)
InitSeq ==
    /\ variant \in Variants
    /\ running = TRUE
    /\ keys \in 0..MaxKeys
    /\ currentKeyIndex = 0
    /\ usageCounts = Zeros(keys)
    /\ lastResetMonth \in Months
    /\ file = NoFile
    /\ pc = [r \in Req |-> "idle"]
    /\ keyToUse = [r \in Req |-> NoKey]
    /\ query = [r \in Req |-> "missing"]
    /\ res = NoResponse
    /\ writeFailures = 0
    /\ served = 0
    /\ multi = NoBatch
    /\ page = NoPage
    /\ single = NoCall

SeqScrape ==
    /\ \E q \in Queries, crash \in BOOLEAN : Scrape(1, q, crash)
    /\ UNCHANGED <<served, multi, page, single>>

SeqResume ==
    /\ \E u \in Upstream : Resume(1, u, TRUE)
    /\ served' = IF res'.status = 200 THEN served + 1 ELSE served
    /\ UNCHANGED <<multi, page, single>>

NextSeq == SeqScrape \/ SeqResume

SpecSeq == InitSeq /\ [][NextSeq]_vars

(***************************************************************************)
(* Specification SpecConc: src/index.js started on the zero ledger, with   *)
(* MaxReq requests in flight at once: a handler suspends at the await of   *)
(* its fetch and other handlers run meanwhile.                             *)
(***************************************************************************)
PlainQueries == {"missing", "valid"}
PlainUpstream == {"ok", "s500"}

InitConc == InitSeq /\ variant = "index_js" /\ keys >= 1

ConcScrape ==
    /\ \E r \in Req, q \in PlainQueries : Scrape(r, q, FALSE)
    /\ UNCHANGED <<served, multi, page, single>>

ConcResume ==
    /\ \E r \in Req, u \in PlainUpstream : Resume(r, u, TRUE)
    /\ UNCHANGED <<served, multi, page, single>>

NextConc == ConcScrape \/ ConcResume

SpecConc == InitConc /\ [][NextConc]_vars

(***************************************************************************)
(* Specification Spec: src/index.js or src/unnamed/part_000 (one of each   *)
(* kind of scan and of save), deployed with no usage.json; the process is  *)
(* started and restarted at any moment, with any non-empty pool, in any    *)
(* month, and its start-up save may fail; requests are handled one at a    *)
(* time.                                                                   *)
(***************************************************************************)
RestartVariants == {"index_js", "part_000"}

Init ==
    /\ variant \in RestartVariants
    /\ running = FALSE
    /\ keys = 0
    /\ currentKeyIndex = 0
    /\ usageCounts = <<>>
    /\ lastResetMonth = 0
    /\ file = NoFile
    /\ pc = [r \in Req |-> "idle"]
    /\ keyToUse = [r \in Req |-> NoKey]
    /\ query = [r \in Req |-> "missing"]
    /\ res = NoResponse
    /\ writeFailures = 0
    /\ served = 0
    /\ multi = NoBatch
    /\ page = NoPage
    /\ single = NoCall

ScrapeOne ==
    /\ \E q \in PlainQueries : Scrape(1, q, FALSE)
    /\ UNCHANGED <<served, multi, page, single>>

ResumeOne ==
    /\ \E u \in PlainUpstream : Resume(1, u, TRUE)
    /\ UNCHANGED <<served, multi, page, single>>

Start ==
    /\ \E n \in 1..MaxKeys, m \in Months, wok \in BOOLEAN : Startup(n, m, wok)
    /\ UNCHANGED <<served, multi, page, single>>

Next == Start \/ ScrapeOne \/ ResumeOne

Spec == Init /\ [][Next]_vars

(***************************************************************************)
(* Specification SpecSave: as Spec, and every save of usage.json by the    *)
(* handler may fail too (at most MaxWriteFailures times in a row).         *)
(***************************************************************************)
SaveResume ==
    /\ \E u \in PlainUpstream, wok \in BOOLEAN : Resume(1, u, wok)
    /\ UNCHANGED <<served, multi, page, single>>

NextSave == Start \/ ScrapeOne \/ SaveResume

SpecSave == Init /\ [][NextSave]_vars

(***************************************************************************)
(* Specification SpecLive: any of the server files with one key, started   *)
(* on the zero ledger; requests are handled one at a time and the upstream *)
(* service may stop answering.  Fairness: node runs the continuation of    *)
(* the handler once the fetch has settled or its timeout has fired.        *)
(***************************************************************************)
SlowUpstream == {"ok", "s500", "hang"}

InitLive == InitSeq /\ keys = 1

LiveScrape ==
    /\ \E q \in PlainQueries : Scrape(1, q, FALSE)
    /\ UNCHANGED <<served, multi, page, single>>

LiveHang == Hang(1) /\ UNCHANGED <<served, multi, page, single>>

LiveResume ==
    /\ \E u \in SlowUpstream : Resume(1, u, TRUE)
    /\ UNCHANGED <<served, multi, page, single>>

NextLive == LiveScrape \/ LiveHang \/ LiveResume

SpecLive == InitLive /\ [][NextLive]_vars /\ WF_vars(LiveResume)

(***************************************************************************)
(* POST /scrape-multi of the single-key server (src/index.js 297-329).     *)
(* The body's `queries` is no array or a list whose entries are URLs or    *)
(* "" (an entry that is empty, blank or no string).  useKey says whether   *)
(* SCRAPER_API_KEY is set.  Each URL's scrape ends in one of               *)
(*   "ok", "status" (non-2xx), "reject" (network error or timeout),        *)
(*   "badjson" (the body is no JSON), "apierror" (the JSON has .error);    *)
(* the last two only matter to scrapeWithScraperAPI, which parses JSON.    *)
(***************************************************************************)
Urls == {"http://a", "http://b"}
Entries == Urls \cup {""}
Lists == UNION {[1..n -> Entries] : n \in 0..MaxBatch}
Bodies ==
    {[isArray |-> FALSE, list |-> <<>>]}
        \cup {[isArray |-> TRUE, list |-> l] : l \in Lists}
ScrapeOutcomes == {"ok", "status", "reject", "badjson", "apierror"}

\* Array.isArray(queries) && queries.length !== 0 && no entry is rejected
ValidQueries(b) ==
    /\ b.isArray
    /\ Len(b.list) # 0
    /\ \A i \in DOMAIN b.list : b.list[i] # ""

\* scrapeWithScraperAPI / scrapeWithFetch: the cause of the Error they
\* throw, "none" when they return a result.
ScrapeError(useKey, o) ==
    IF o = "reject" THEN "network"
    ELSE IF o = "status" THEN "HTTP error"
    ELSE IF useKey /\ o = "badjson" THEN "invalid json"
    ELSE IF useKey /\ o = "apierror" THEN "data.error"
    ELSE "none"

Pending == [kind |-> "pending"]

\* A faulty Settled: no try/catch around the scrape, the callback rejects.
SettledRethrows(url, useKey, o) ==
    IF ScrapeError(useKey, o) = "none"
    THEN [kind |-> "result", url |-> url, by |-> useKey, error |-> "none"]
    ELSE [kind |-> "rejected"]

\* The value of one map callback: { url, result } or { url, error }.
Settled(url, useKey, o) ==
    IF ScrapeError(useKey, o) = "none"
    THEN [kind |-> "result", url |-> url, by |-> useKey, error |-> "none"]
    ELSE [kind |-> "error", url |-> url, by |-> useKey,
          error |-> ScrapeError(useKey, o)]

MultiReceive(b, useKey) ==
    /\ multi = NoBatch
    /\ multi' = IF ValidQueries(b)
                THEN [phase |-> "pending", useKey |-> useKey, body |-> b,
                      queries |-> b.list,
                      slots |-> [i \in DOMAIN b.list |-> Pending],
                      fate |-> [i \in DOMAIN b.list |-> "none"],
                      response |-> [status |-> 0, results |-> <<>>]]
                ELSE [phase |-> "done", body |-> b,
                      response |-> [status |-> 400, results |-> <<>>]]
    /\ UNCHANGED <<relay, page, single>>

\* The scrape of queries[i] ends with outcome o.
MultiSettle(i, o) ==
    /\ multi.phase = "pending"
    /\ i \in DOMAIN multi.slots
    /\ multi.slots[i] = Pending
    /\ multi' = [multi EXCEPT
                    !.slots[i] = Settled(multi.queries[i], multi.useKey, o),
                    !.fate[i] = o]
    /\ UNCHANGED <<relay, page, single>>

\* Promise.all settles: it rejects once a callback has rejected (the outer
\* catch answers 500), it resolves with the values in the order of the
\* input when every callback has resolved.
MultiRespond ==
    /\ multi.phase = "pending"
    /\ LET slots == multi.slots
           rejected == \E i \in DOMAIN slots : slots[i].kind = "rejected"
           settled == \A i \in DOMAIN slots : slots[i] # Pending
       IN  /\ rejected \/ settled
           /\ multi' = [multi EXCEPT
                  !.phase = "done",
                  !.response = IF rejected
                               THEN [status |-> 500, results |-> <<>>]
                               ELSE [status |-> 200, results |-> slots]]
    /\ UNCHANGED <<relay, page, single>>

(***************************************************************************)
(* Specification SpecMulti: one POST /scrape-multi with any body, its      *)
(* scrapes ending in any order with any outcome.                           *)
(***************************************************************************)
InitMulti == Init /\ variant = "index_js"

Receive == \E b \in Bodies, useKey \in BOOLEAN : MultiReceive(b, useKey)

Settle == \E i \in 1..MaxBatch, o \in ScrapeOutcomes : MultiSettle(i, o)

NextMulti == Receive \/ Settle \/ MultiRespond

SpecMulti == InitMulti /\ [][NextMulti]_vars

(***************************************************************************)
(* Field extraction of POST /scrape: what the handler makes of a 2xx page  *)
(* (src/index.js 425-453, part_000 72-100, part_001 410-413, part_002      *)
(* 94-155).  A page is described by what the handler's selectors find in   *)
(* it, every text already trimmed:                                         *)
(*   contentType   the content-type header: "none" (absent), "html", "json"*)
(*   host          kind of new URL(query).hostname                         *)
(*   h1            $('h1').first().text(), "" when there is none           *)
(*   title         $('title').text()                                       *)
(*   longP         the first <p> of more than 50 characters                *)
(*   h2h3          the non-empty texts of $('h2, h3')                      *)
(*   wikiP, wikiH2 '#mw-content-text .mw-parser-output > p', '... > h2'    *)
(*   productTitle  $('#productTitle').text()                               *)
(*   imgs, tables  what find('img'), find('table') yield in part_002       *)
(*   container     part_002: an element of 'main, article, #content,       *)
(*                 .content, .main, body' is left after the removal of     *)
(*                 'script, ..., [id*="ad"], [class*="ad"]'                *)
(* A heading under '.mw-parser-output > h2' is an h2 of the page.          *)
(***************************************************************************)
Hosts == {"wikipedia", "amazon", "other"}
ContentTypes == {"none", "html", "json"}

Pages ==
    {pg \in [contentType : ContentTypes, host : Hosts,
              h1 : {"", "Heading"}, title : {"", "Title"},
              longP : {"", "Paragraph"}, h2h3 : {<<>>, <<"Section">>},
              wikiP : {"", "Lead"}, wikiH2 : {<<>>, <<"Section">>},
              productTitle : {"", "Product"},
              imgs : {<<>>, <<"img">>}, tables : {<<>>, <<"row">>},
              container : BOOLEAN, main : BOOLEAN, inMain : BOOLEAN] :
        /\ pg.wikiH2 # <<>> => pg.h2h3 # <<>>
        /\ pg.main => pg.container
        /\ ~pg.main => pg.inMain}

\* The elements matching 'main, article, #content, .content, .main, body',
\* in document order: body is an ancestor of the others and comes first.
Matches(pg) ==
    (IF pg.container THEN <<"body">> ELSE <<>>)
        \o (IF pg.main THEN <<"main">> ELSE <<>>)

\* mainContent: .first() of the matches.
Scope(pg) == IF Matches(pg) = <<>> THEN "none" ELSE Head(Matches(pg))

\* mainContent.find(...): the elements of list that lie within the scope.
Within(pg, list) ==
    IF Scope(pg) = "none" THEN <<>>
    ELSE IF Scope(pg) = "main" /\ ~pg.inMain THEN <<>>
    ELSE list

\* a || b on strings
Or(a, b) == IF a # "" THEN a ELSE b

NoResult ==
    [status |-> 0, fields |-> {}, title |-> "", intro |-> "",
     sections |-> <<>>, headings |-> <<>>, images |-> <<>>, tables |-> <<>>]

\* The handler's answer to a page: the status and the fields of `result`.
Extracted(v, pg) ==
    LET title == Or(pg.h1, Or(pg.title, "No title"))
        intro == Or(pg.longP, "No intro")
        wiki == pg.host = "wikipedia"
        amazon == pg.host = "amazon"
    IN  IF v \in {"index_js", "part_000"}
        THEN \* { ...result, ...customData }; customData.x || x in part_000,
             \* where an empty array is truthy
             [NoResult EXCEPT
                !.status = 200,
                !.fields = {"rawHtml", "title", "intro", "sections"}
                              \cup (IF amazon /\ v = "index_js"
                                    THEN {"description"} ELSE {}),
                !.title = IF amazon THEN Or(pg.productTitle, title) ELSE title,
                !.intro = IF wiki THEN Or(pg.wikiP, intro) ELSE intro,
                !.sections = IF wiki THEN pg.wikiH2 ELSE pg.h2h3]
        ELSE IF v = "part_001"
        THEN \* result is the text of the body
             [NoResult EXCEPT !.status = 200, !.fields = {"text"}]
        ELSE IF pg.contentType = "none"
        THEN \* contentType is null: contentType.includes throws a TypeError
             [NoResult EXCEPT !.status = Caught(v, "TypeError").status]
        ELSE [NoResult EXCEPT
                !.status = 200,
                !.fields = {"rawHtml", "title", "description"}
                              \cup (IF Scope(pg) # "none"
                                    THEN {"paragraphs", "headings", "items",
                                          "images", "tables"}
                                    ELSE {}),
                !.title = Or(pg.title, "No title"),
                !.headings = Within(pg, (IF pg.h1 # "" THEN <<pg.h1>>
                                             ELSE <<>>) \o pg.h2h3),
                !.images = Within(pg, pg.imgs),
                !.tables = Within(pg, pg.tables)]

\* The upstream answers 2xx with page pg.
Fetched(pg) ==
    /\ page = NoPage
    /\ page' = [phase |-> "fetched", in |-> pg, out |-> NoResult]
    /\ UNCHANGED <<relay, multi, single>>

\* The handler parses the page and builds its answer.
Parse ==
    /\ page.phase = "fetched"
    /\ page' = [page EXCEPT !.phase = "parsed",
                            !.out = Extracted(variant, page.in)]
    /\ UNCHANGED <<relay, multi, single>>

(***************************************************************************)
(* Specification SpecExtract: any of the server files answers one request  *)
(* whose fetch returned 2xx, for every page.                               *)
(***************************************************************************)
InitExtract == InitSeq /\ keys = 1 /\ lastResetMonth = 0

Fetch == page = NoPage /\ \E pg \in Pages : Fetched(pg)

NextExtract == Fetch \/ Parse

SpecExtract == InitExtract /\ [][NextExtract]_vars

(***************************************************************************)
(* POST /scrape of the single-key servers: index.js 95-113 (axios),        *)
(* index.js 271-294 (fetch), part_001 139-169 and part_003 76-94.          *)
(***************************************************************************)
Servers == {"index_js_axios", "index_js_fetch", "part_001", "part_003"}

\* The checks before the try block: "reject" answers 400.
SingleValidation(s, q) ==
    IF q = "missing" THEN "reject"
    ELSE IF s \in {"index_js_axios", "part_003"} THEN "pass"
    ELSE IF q = "nonstring" THEN "reject"
    ELSE IF s = "part_001" /\ UrlThrows(q) THEN "reject"
    ELSE "pass"

\* if (SCRAPER_API_KEY) scrapeWithScraperAPI(...) else scrapeWithFetch(...)
PathFor(useKey) == IF useKey THEN "scraperapi" ELSE "direct"

\* What the scrape function called on `path` throws, "none" when it returns.
\* axios hands over a body that is not JSON as a string, whose .error is
\* undefined.
SingleError(s, path, o) ==
    IF o = "reject" THEN "network"
    ELSE IF o = "status" THEN "HTTP error"
    ELSE IF path = "scraperapi" /\ o = "badjson" /\ s # "index_js_axios"
         THEN "invalid json"
    ELSE IF path = "scraperapi" /\ o = "apierror" THEN "data.error"
    ELSE "none"

\* The handler is entered: validation, then the one call it awaits.
SingleReceive(s, useKey, q) ==
    /\ single = NoCall
    /\ single' =
          IF SingleValidation(s, q) = "reject"
          THEN [phase |-> "done", server |-> s, useKey |-> useKey,
                query |-> q, calls |-> <<>>, fate |-> "none",
                response |-> Response(400, "A valid URL is required")]
          ELSE [phase |-> "await", server |-> s, useKey |-> useKey,
                query |-> q, calls |-> <<PathFor(useKey)>>, fate |-> "none",
                response |-> NoResponse]
    /\ UNCHANGED <<relay, multi, page>>

\* A faulty Completed: a failed ScraperAPI call degrades to the direct fetch.
CompletedWithFallback(sg, o) ==
    LET path == sg.calls[Len(sg.calls)]
        err == SingleError(sg.server, path, o)
    IN  IF err # "none" /\ path = "scraperapi"
        THEN [sg EXCEPT !.phase = "done", !.fate = o,
                        !.calls = Append(sg.calls, "direct"),
                        !.response = Response(200, "")]
        ELSE [sg EXCEPT !.phase = "done", !.fate = o,
                        !.response = IF err = "none" THEN Response(200, "")
                                     ELSE Response(500, err)]

\* The awaited call settles with o: res.json({ result }) or the catch block.
Completed(sg, o) ==
    LET path == sg.calls[Len(sg.calls)]
        err == SingleError(sg.server, path, o)
    IN  [sg EXCEPT !.phase = "done", !.fate = o,
                   !.response = IF err = "none" THEN Response(200, "")
                                ELSE Response(500, err)]

SingleSettle(o) ==
    /\ single.phase = "await"
    /\ single' = Completed(single, o)
    /\ UNCHANGED <<relay, multi, page>>

(***************************************************************************)
(* Specification SpecSingle: one POST /scrape to a single-key server, with *)
(* and without SCRAPER_API_KEY, for every kind of query and outcome.       *)
(***************************************************************************)
InitSingle == Init /\ variant = "index_js"

ReceiveSingle ==
    \E s \in Servers, useKey \in BOOLEAN, q \in Queries :
        SingleReceive(s, useKey, q)

SettleSingle == \E o \in ScrapeOutcomes : SingleSettle(o)

NextSingle == ReceiveSingle \/ SettleSingle

SpecSingle == InitSingle /\ [][NextSingle]_vars

(***************************************************************************)
(* Properties.                                                             *)
(***************************************************************************)
\* Every credential of the pool has a count and it has reached the cap.
AllAtCap ==
    \A i \in 0..(keys - 1) :
        (i + 1) \in DOMAIN usageCounts /\ usageCounts[i + 1] >= Cap

\* C1: requests handled one at a time from the zero ledger: no count ever
\* exceeds 1000 and at most keys.length * 1000 requests are answered 200.
QuotaCapSequential ==
    running =>
        /\ \A i \in DOMAIN usageCounts : usageCounts[i] <= Cap
        /\ served <= keys * Cap

\* The whole pool was used up by requests answered 200.
QuotaCapSequentialWitness ==
    /\ running
    /\ keys = MaxKeys
    /\ \A i \in DOMAIN usageCounts : usageCounts[i] = Cap
    /\ served = keys * Cap

\* C2: with requests in flight at once, no count ever exceeds 1000.
QuotaCapConcurrent == \A i \in DOMAIN usageCounts : usageCounts[i] < Cap + 1

\* C3: a request answered 200 increments exactly the count of the key it
\* selected and sent upstream, by one, whatever other requests did meanwhile.
UsageAttribution ==
    [][\A r \in Req :
          (pc[r] = "fetch" /\ pc'[r] = "idle" /\ res'.status = 200)
              => usageCounts' = Increment(usageCounts, keyToUse[r])]_vars

\* C4: with a non-empty pool a request is refused for quota only if every
\* credential's count has reached 1000.
SelectionComplete ==
    (running /\ keys >= 1 /\ res = QuotaExhausted) => AllAtCap

\* C5: on an empty pool a selection fails with an outcome that differs from
\* the one of an exhausted pool.
EmptyPoolDistinct == (running /\ keys = 0) => res # QuotaExhausted

\* C6: a request that passes validation while every count is at the cap is
\* answered 429 with the quota message, issues no fetch and leaves cursor,
\* counts, lastResetMonth and usage.json as they were.
QuotaExhaustionRejects ==
    [][\A q \in Queries :
          (keys >= 1 /\ AllAtCap /\ Validation(variant, q) = "pass"
           /\ Scrape(1, q, FALSE))
              => /\ res' = QuotaExhausted
                 /\ pc' = pc
                 /\ UNCHANGED <<ledger, file>>]_vars

\* The 1001st request to a pool of one key, after 1000 answered 200.
QuotaExhaustionWitness ==
    /\ keys = 1
    /\ usageCounts = <<Cap>>
    /\ served = Cap
    /\ pc[1] = "idle"
    /\ res = QuotaExhausted

\* C7: a request to a server with keys whose query is missing or malformed
\* is answered 400, issues no fetch and leaves the ledger, cursor included,
\* as it was.
InvalidUrlRejected ==
    [][\A q \in {"missing", "nonstring", "nomatch", "unparsable"} :
          (keys >= 1 /\ \E crash \in BOOLEAN : Scrape(1, q, crash))
              => /\ res'.status = 400
                 /\ pc' = pc
                 /\ UNCHANGED ledger]_vars

\* C8: a request whose upstream fetch fails (non-2xx, network error or
\* timeout) changes no count and writes nothing to usage.json.
FailedFetchNoIncrement ==
    [][\A u \in Upstream \ {"ok"} :
          Resume(1, u, TRUE) => UNCHANGED <<usageCounts, file>>]_vars

CursorInRange ==
    (running /\ keys >= 1) => (0 <= currentKeyIndex /\ currentKeyIndex < keys)

\* C11: after usage.json is loaded the ledger has exactly one count per
\* credential (truncated or padded with zeros), so every credential of the
\* pool has a defined count.
LedgerLength == running => Len(usageCounts) = keys

\* C12: a save of usage.json that fails after a fetched and parsed page
\* leaves the request answered 200, with the increment kept in memory.
SaveFailureNonFatal ==
    [][\A u \in Upstream :
          Resume(1, u, FALSE)
              => /\ res'.status = 200
                 /\ usageCounts' = Increment(usageCounts, currentKeyIndex)]_vars

\* usage.json holds the ledger that is in memory.
Saved == file = Doc(currentKeyIndex, usageCounts, lastResetMonth)

\* C13: after an increment whose save succeeds and after a monthly reset
\* whose save succeeds, usage.json holds the in-memory ledger; a restart of
\* such a process with the same pool in the month of the ledger reloads
\* exactly that ledger and leaves usage.json as it is.
PersistRoundTrip ==
    [][/\ \A u \in Upstream :
             (Resume(1, u, TRUE) /\ res'.status = 200) => Saved'
       /\ \A n \in 1..MaxKeys, m \in Months :
             (Startup(n, m, TRUE) /\ m # Loaded(file, n, m).lastResetMonth)
                 => Saved'
       /\ \A wok \in BOOLEAN :
             (running /\ Saved /\ Startup(keys, lastResetMonth, wok))
                 => running' /\ UNCHANGED <<keys, ledger, file>>]_vars

\* A restart has just reloaded a saved ledger whose cursor is on the second
\* credential, the first being used up.
PersistRoundTripWitness ==
    /\ running
    /\ keys = MaxKeys
    /\ pc[1] = "idle"
    /\ res = NoResponse
    /\ Saved
    /\ currentKeyIndex = 1
    /\ usageCounts[1] = Cap
    /\ usageCounts[2] > 0

\* C14: an upstream answer of 401 or 403 is reported as 401, every other
\* upstream failure as 500 whatever its body says, and a 429 is sent only
\* when the local pool is exhausted.
ErrorStatusMapping ==
    [][/\ \A u \in Upstream \ {"ok"} :
             Resume(1, u, TRUE)
                 => res'.status = IF u \in {"s401", "s403"} THEN 401 ELSE 500
       /\ res'.status = 429 => res' = QuotaExhausted]_vars

\* C15: a valid /scrape-multi request is answered 200 with one entry per
\* query, in the order of the input, entry i carrying url = queries[i] and
\* either a result or an error; entry i is an error only if the scrape of
\* queries[i] itself failed.
BatchIsolation ==
    (multi.phase = "done" /\ ValidQueries(multi.body)) =>
        LET results == multi.response.results
        IN  /\ multi.response.status = 200
            /\ Len(results) = Len(multi.queries)
            /\ \A i \in DOMAIN results :
                  /\ results[i].url = multi.queries[i]
                  /\ results[i].kind \in {"result", "error"}
                  /\ results[i].kind = "error"
                        <=> multi.fate[i] \in
                               {"status", "reject"} \cup
                               (IF multi.useKey THEN {"badjson", "apierror"}
                                ELSE {})

\* A batch of MaxBatch URLs was answered: the first scrape failed, the last
\* succeeded, and the first and the last URL differ.
BatchIsolationWitness ==
    /\ multi.phase = "done"
    /\ ValidQueries(multi.body)
    /\ Len(multi.queries) = MaxBatch
    /\ multi.queries[1] # multi.queries[MaxBatch]
    /\ multi.response.status = 200
    /\ multi.response.results[1].kind = "error"
    /\ multi.response.results[MaxBatch].kind = "result"

\* C16: a request that passed validation and key selection and awaits its
\* fetch is eventually answered, even if the upstream never answers.
ResponseEventually == (pc[1] \in {"fetch", "hung"}) ~> (pc[1] = "idle")

\* C17: from the zero ledger with two or more credentials, requests handled
\* one at a time use a credential other than index 0 before index 0 has
\* served 1000 requests.
LoadSpread ==
    (running /\ keys >= 2 /\ usageCounts[1] = Cap)
        => \E i \in 2..keys : usageCounts[i] > 0

\* C18: for a wikipedia.org URL the intro and the sections come from the
\* specialised container when it yields something, and each keeps its
\* generic value otherwise.
OverrideFallback ==
    (/\ page.phase = "parsed"
     /\ page.in.host = "wikipedia"
     /\ {"intro", "sections"} \subseteq page.out.fields)
        => /\ page.out.intro = IF page.in.wikiP # "" THEN page.in.wikiP
                               ELSE Or(page.in.longP, "No intro")
           /\ page.out.sections = IF page.in.wikiH2 # <<>> THEN page.in.wikiH2
                                  ELSE page.in.h2h3

\* C19: a 2xx page is answered 200 whatever it lacks, and a list field of
\* the result whose elements the page lacks is present and empty.
MissingElementsTolerated ==
    page.phase = "parsed"
        => /\ page.out.status = 200
           /\ (variant \in {"index_js", "part_000"} /\ page.in.h2h3 = <<>>)
                 => ("sections" \in page.out.fields
                     /\ page.out.sections = <<>>)
           /\ (variant = "part_002" /\ page.in.h1 = "" /\ page.in.h2h3 = <<>>)
                 => ("headings" \in page.out.fields
                     /\ page.out.headings = <<>>)
           /\ (variant = "part_002" /\ page.in.imgs = <<>>)
                 => ("images" \in page.out.fields /\ page.out.images = <<>>)
           /\ (variant = "part_002" /\ page.in.tables = <<>>)
                 => ("tables" \in page.out.fields /\ page.out.tables = <<>>)

\* C20: the title of the result (of a page of a host without a title
\* override) is the first h1's text when it is not empty, else the title
\* tag's text when it is not empty, else the sentinel.
TitleFallback ==
    (/\ page.phase = "parsed"
     /\ page.in.host # "amazon"
     /\ "title" \in page.out.fields)
        => page.out.title = Or(page.in.h1, Or(page.in.title, "No title"))

\* The credentials of the pool whose count is below the budget.
BelowCap ==
    {k \in 0..(keys - 1) :
        (k + 1) \in DOMAIN usageCounts /\ usageCounts[k + 1] < Cap}

\* The place of index k in the cyclic order c, c+1, ..., N-1, 0, ..., c-1.
CyclicRank(k) == CHOOSE d \in 0..(keys - 1) : (currentKeyIndex + d) % keys = k

\* C21: a selection that succeeds picks the first index, in the cyclic
\* order from the cursor, whose count is below 1000, sets the cursor to it
\* and sends the request upstream with the credential at that index.
SelectionResult ==
    [][\A r \in Req :
          (pc[r] = "idle" /\ pc'[r] = "fetch")
              => /\ keyToUse'[r] \in BelowCap
                 /\ \A k \in BelowCap :
                       CyclicRank(keyToUse'[r]) <= CyclicRank(k)
                 /\ currentKeyIndex' = keyToUse'[r]]_vars

\* The cursor stood on the second credential, which is used up, and the
\* selection has wrapped around to the first.
SelectionResultWitness ==
    /\ running
    /\ keys = MaxKeys
    /\ pc[1] = "fetch"
    /\ keyToUse[1] = 0
    /\ currentKeyIndex = 0
    /\ Len(usageCounts) = keys
    /\ usageCounts[1] = 0
    /\ usageCounts[2] = Cap

\* C22: a request issues one upstream fetch: while it awaits the fetch its
\* credential stays the same, the cursor of a live process moves only when
\* a request leaves "idle" for its fetch, and a request answered with an upstream failure
\* or with the quota error leaves no fetch in flight.
NoInternalRetry ==
    [][/\ \A r \in Req :
             /\ (pc[r] \in {"fetch", "hung"} /\ pc'[r] \in {"fetch", "hung"})
                   => keyToUse'[r] = keyToUse[r]
             /\ (pc[r] \in {"fetch", "hung"} /\ pc'[r] # pc[r])
                   => pc'[r] \in {"idle", "hung"}
       /\ (running' /\ currentKeyIndex' # currentKeyIndex)
             => \E r \in Req : pc[r] = "idle" /\ pc'[r] = "fetch"
       /\ (res'.status \notin {0, 200} /\ res' # res)
             => \A r \in Req : pc'[r] = "fetch" => pc[r] = "fetch"]_vars

\* A fetch with the first of two credentials has failed and was answered
\* 500; the second credential, which has budget, was not tried.
NoInternalRetryWitness ==
    /\ running
    /\ keys = MaxKeys
    /\ pc[1] = "idle"
    /\ res.status = 500
    /\ currentKeyIndex = 0
    /\ usageCounts = Zeros(keys)

\* C23: when the page has a main, article or content container, headings,
\* images and tables are taken only from within that container; the whole
\* body is the scope only when there is no such container.
ScopeNarrowing ==
    (/\ page.phase = "parsed"
     /\ variant = "part_002"
     /\ page.out.status = 200
     /\ page.in.container)
        => LET pg == page.in
               all == (IF pg.h1 # "" THEN <<pg.h1>> ELSE <<>>) \o pg.h2h3
               inScope == ~pg.main \/ pg.inMain
           IN  /\ page.out.headings = IF inScope THEN all ELSE <<>>
               /\ page.out.images = IF inScope THEN pg.imgs ELSE <<>>
               /\ page.out.tables = IF inScope THEN pg.tables ELSE <<>>

\* C24: a single-key server calls the third-party service exactly when
\* SCRAPER_API_KEY is configured and fetches directly exactly when it is
\* not; a request that passes validation makes one call, on one path, and
\* a failed third-party call is answered 500 with no direct fetch.
PathSelection ==
    single.phase # "none"
        => LET called == {single.calls[i] : i \in DOMAIN single.calls}
               passed == single.response.status # 400
           IN  /\ "scraperapi" \in called <=> (passed /\ single.useKey)
               /\ "direct" \in called <=> (passed /\ ~single.useKey)
               /\ Len(single.calls) <= 1
               /\ (/\ single.phase = "done"
                   /\ single.useKey
                   /\ single.fate \in {"status", "reject", "apierror"})
                     => single.response.status = 500

\* A server with a key has answered a failed ScraperAPI call.
PathSelectionWitness ==
    /\ single.phase = "done"
    /\ single.useKey
    /\ single.fate = "status"
    /\ single.calls = <<"scraperapi">>
    /\ single.response.status = 500

====
